---- MODULE Spec2Model ----
(***************************************************************************)
(* BudgetDiet: the document pipeline.                                      *)
(*                                                                         *)
(* The server side is a set of Convex mutations (convex/documents.ts),     *)
(* each one an atomic transaction over the tables, and two Convex actions  *)
(* (convex/actions.ts).  The orchestrator is the client function           *)
(* handleUpload (src/App.tsx): it awaits one server call after the other,  *)
(* so every await is a point where other clients' mutations interleave.    *)
(***************************************************************************)
EXTENDS Integers, Sequences, FiniteSets, Bags, TLC

(* The browser sessions that run handleUpload.  One session uploads file   *)
(* after file; every other client of the deployment appears through the    *)
(* mutations it calls directly (updateStatus, deleteDocument).             *)
Runs == {"tab"}

(* users table ids (convex/documents.ts, schema: documents.ownerId). *)
UserId == {"u1", "u2"}

(* Number of files uploaded over the whole behaviour: ids of the blob      *)
(* store and of the documents table are handed out in order, one per       *)
(* upload, so both stay within 1..MaxDocs.                                 *)
MaxDocs == 2

DocId == 1..MaxDocs
StorageId == 1..MaxDocs

(* documents.status, schema lines 114-120. *)
Status == {"pending", "extracting", "analyzing", "completed", "failed"}

(* Values a client may put in updateStatus' status argument: the five      *)
(* literals and one string outside the union.                              *)
StatusArg == Status \cup {"archived"}

(* executionErrors.step, schema line 150. *)
Step == {"extraction", "analysis"}

NoId == 0

(* A date literal "YYYY-MM-DD" as the engine writes it. *)
Date(y, m, d) == [y |-> y, m |-> m, d |-> d]

(* The parsed JSON of one statement: three transactions out of order. *)
ExampleData ==
    [totalSpent |-> 300,
     transactions |-> << [date |-> Date(2025, 1, 10)],
                         [date |-> Date(2025, 1, 5)],
                         [date |-> Date(2025, 1, 12)] >>]

(* What completion.choices[0].message.content can be: the call itself      *)
(* throwing, an empty body, text that is not JSON, or a JSON record.       *)
EngineRecord == {[kind |-> "json", data |-> ExampleData]}
EngineResponse ==
    {[kind |-> "callFailed"], [kind |-> "empty"], [kind |-> "notJson"]}
        \cup EngineRecord

NoAnalysis == [kind |-> "none"]

VARIABLES
    documents,        \* documents table: id -> row
    storage,          \* _storage: the blob ids that exist
    analysisResults,  \* analysis rows: a bag, rows differ only by their _id
    executionErrors,  \* executionErrors table, in insertion order
    nextDocId,        \* next id ctx.db.insert("documents") hands out
    nextStorageId,    \* next id the blob store hands out
    run,              \* handleUpload invocations: run -> local state
    last,             \* the latest direct mutation call and its outcome
    post,             \* one evaluation of the post-processing: input and outputs
    users             \* users table: _id -> row, ids in insertion order

vars == <<documents, storage, analysisResults, executionErrors,
          nextDocId, nextStorageId, run, last, post, users>>

IdleRun == [pc |-> "idle", userId |-> "u1", storageId |-> NoId, docId |-> NoId,
            text |-> "none", analysisResult |-> NoAnalysis,
            extractCalls |-> 0, analyzeCalls |-> 0,
            errorStage |-> "none", error |-> "none"]

NoCall == [op |-> "none", err |-> "none"]

(* No value yet (undefined). *)
NoResult == [kind |-> "none"]

(* post.by names the copy of analyzeFinancialText that produced the result. *)
NoPost == [data |-> NoResult, by |-> "none", result |-> NoResult, again |-> NoResult]

Init ==
    /\ documents = <<>>
    /\ storage = {}
    /\ analysisResults = EmptyBag
    /\ executionErrors = <<>>
    /\ nextDocId = 1
    /\ nextStorageId = 1
    /\ run = [r \in Runs |-> IdleRun]
    /\ last = NoCall
    /\ post = NoPost
    /\ users = <<>>

(* handleUpload with a catch block that calls extractText again after a    *)
(* failed extraction or analysis.                                          *)
CatchAndRetry(r, stage, e) ==
    IF stage \in {"extraction", "analysis"}
      THEN run' = [run EXCEPT ![r].pc = "extractText", ![r].extractCalls = @ + 1]
      ELSE run' = [run EXCEPT ![r] = [IdleRun EXCEPT !.pc = "error",
                                                     !.errorStage = stage,
                                                     !.error = e]]

(* The catch block of handleUpload (lines 255-272): setError and the error *)
(* modal; no server call is made.  The invocation returns, so its locals   *)
(* (storageId, docId, analysisResult) are gone; the message stays on       *)
(* screen.  extractCalls and analyzeCalls, the numbers of calls the         *)
(* invocation has issued, are kept until the next invocation starts.       *)
Catch(r, stage, e) ==
    run' = [run EXCEPT ![r] = [IdleRun EXCEPT !.pc = "error",
                                                !.extractCalls = run[r].extractCalls,
                                                !.analyzeCalls = run[r].analyzeCalls,
                                                !.errorStage = stage,
                                                !.error = e]]

(***************************************************************************)
(* Server functions (convex/documents.ts, convex/actions.ts).              *)
(***************************************************************************)

(* A row inserted with status "extracting" instead of "pending". *)
NewDocumentExtracting(title, storageId, userId) ==
    [title |-> title, storageId |-> storageId, ownerId |-> userId,
     status |-> "extracting"]

(* create, lines 15-32: insert a documents row with status "pending" and   *)
(* return its id.                                                          *)
NewDocument(title, storageId, userId) ==
    [title |-> title, storageId |-> storageId, ownerId |-> userId,
     status |-> "pending"]

create(title, storageId, userId) ==
    /\ documents' = documents @@ (nextDocId :> NewDocument(title, storageId, userId))
    /\ nextDocId' = nextDocId + 1

(* A validator that lets any string through, as v.string() would. *)
StatusValidatorAnyString(s) == TRUE

(* The args validator of updateStatus, lines 81-87: a union of the five    *)
(* literals.  A value outside it is rejected before the handler runs.      *)
StatusValidator(s) == s \in Status

(* ctx.db.patch(documentId, {status}), lines 90-92. *)
PatchStatus(documentId, status) ==
    documents' = [documents EXCEPT ![documentId].status = status]

Remove(f, d) == [x \in DOMAIN f \ {d} |-> f[x]]

(* What the client that called a mutation directly gets back: the name of  *)
(* the mutation and "ok" or the message of the Error it threw.             *)
Call(op, err) == [op |-> op, err |-> err]

(* updateStatus writing a row when there is none to patch. *)
updateStatusUpsert(caller, documentId, status) ==
    /\ IF ~StatusValidator(status)
         THEN /\ last' = Call("updateStatus", "ArgumentValidationError")
              /\ UNCHANGED documents
       ELSE IF documentId \notin DOMAIN documents
         THEN /\ last' = Call("updateStatus", "ok")
              /\ documents' = documents @@
                     (documentId :> [NewDocument("", NoId, caller) EXCEPT !.status = status])
       ELSE /\ last' = Call("updateStatus", "ok")
            /\ PatchStatus(documentId, status)
    /\ UNCHANGED <<storage, analysisResults, executionErrors, nextDocId,
                   nextStorageId, run, post, users>>

(* updateStatus, lines 78-94, called by a client logged in as `caller`.    *)
(* The mutation takes no user argument and reads no row: it patches the    *)
(* status of the document whoever calls it and whatever the status was.    *)
updateStatus(caller, documentId, status) ==
    /\ IF ~StatusValidator(status)
         THEN /\ last' = Call("updateStatus", "ArgumentValidationError")
              /\ UNCHANGED documents
       ELSE IF documentId \notin DOMAIN documents
         THEN /\ last' = Call("updateStatus", "Document not found")
              /\ UNCHANGED documents
       ELSE /\ last' = Call("updateStatus", "ok")
            /\ PatchStatus(documentId, status)
    /\ UNCHANGED <<storage, analysisResults, executionErrors, nextDocId,
                   nextStorageId, run, post, users>>

(* deleteDocument without the ownership check of lines 60-63. *)
deleteDocumentNoOwnerCheck(documentId, userId) ==
    /\ IF documentId \notin DOMAIN documents
         THEN /\ last' = Call("deleteDocument", "Document not found")
              /\ UNCHANGED <<documents, storage>>
       ELSE /\ last' = Call("deleteDocument", "ok")
            /\ storage' = storage \ {documents[documentId].storageId}
            /\ documents' = Remove(documents, documentId)
    /\ UNCHANGED <<analysisResults, executionErrors, nextDocId, nextStorageId, run, post, users>>

(* deleteDocument without the ctx.storage.delete of line 67. *)
deleteDocumentKeepsBlob(documentId, userId) ==
    /\ IF documentId \notin DOMAIN documents
         THEN /\ last' = Call("deleteDocument", "Document not found")
              /\ UNCHANGED <<documents, storage>>
       ELSE IF documents[documentId].ownerId # userId
         THEN /\ last' = Call("deleteDocument", "Not authorized")
              /\ UNCHANGED <<documents, storage>>
       ELSE /\ last' = Call("deleteDocument", "ok")
            /\ UNCHANGED storage
            /\ documents' = Remove(documents, documentId)
    /\ UNCHANGED <<analysisResults, executionErrors, nextDocId, nextStorageId, run, post, users>>

(* deleteDocument, lines 47-75.  A throw aborts the transaction, so the    *)
(* two throws leave every table as it was.                                 *)
deleteDocument(documentId, userId) ==
    /\ IF documentId \notin DOMAIN documents
         THEN /\ last' = Call("deleteDocument", "Document not found")
              /\ UNCHANGED <<documents, storage>>
       ELSE IF documents[documentId].ownerId # userId
         THEN /\ last' = Call("deleteDocument", "Not authorized")
              /\ UNCHANGED <<documents, storage>>
       ELSE /\ last' = Call("deleteDocument", "ok")
            /\ storage' = storage \ {documents[documentId].storageId}
            /\ documents' = Remove(documents, documentId)
    /\ UNCHANGED <<analysisResults, executionErrors, nextDocId, nextStorageId, run, post, users>>

(* saveAnalysisResult(documentId, analysis): called at App.tsx line 230,   *)
(* its handler is not among the sources.  Per the repository contract it   *)
(* inserts the result and sets status = completed in one transaction; a    *)
(* patch of a row that no longer exists throws and writes nothing.         *)
saveAnalysisResult(documentId, analysis) ==
    /\ documentId \in DOMAIN documents
    /\ analysisResults' = analysisResults (+)
            SetToBag({[documentId |-> documentId, analysis |-> analysis]})
    /\ documents' = [documents EXCEPT ![documentId].status = "completed"]

(* extractText answering a missing blob with the message of a failed       *)
(* parse.                                                                  *)
ExtractOutcomesOneMessage(storageId) ==
    IF storageId \notin storage THEN {"Failed to extract text from PDF."}
    ELSE {"text", "Failed to extract text from PDF."}

(* extractText, actions.ts lines 11-36: the outcomes of the action for a   *)
(* blob reference.  getUrl of a missing blob returns null and the action   *)
(* throws "File not found"; pdf-parse either returns text or throws.       *)
ExtractOutcomes(storageId) ==
    IF storageId \notin storage THEN {"File not found"}
    ELSE {"text", "Failed to extract text from PDF."}

(***************************************************************************)
(* The post-processing of analyzeFinancialText, part_001 lines 110-142.    *)
(* A Date's time value is kept in seconds instead of milliseconds (every   *)
(* value here is a whole number of seconds), amounts of money with two     *)
(* decimals are kept as a number of hundredths.                            *)
(***************************************************************************)

(* 1000 * 60 * 60 * 24 ms, line 128. *)
SecPerDay == 60 * 60 * 24

(* new Date("YYYY-MM-DD").getTime(): a date-only literal is UTC midnight   *)
(* of that day of the proleptic Gregorian calendar, counted from           *)
(* 1970-01-01.                                                             *)
DaysFromCivil(date) ==
    LET y   == IF date.m <= 2 THEN date.y - 1 ELSE date.y
        era == y \div 400
        yoe == y - era * 400
        mp  == IF date.m > 2 THEN date.m - 3 ELSE date.m + 9
        doy == (153 * mp + 2) \div 5 + date.d - 1
        doe == yoe * 365 + yoe \div 4 - yoe \div 100 + doy
    IN  era * 146097 + doe - 719468

(* The number NaN.  It is encoded as -1: no time value and no amount of    *)
(* the inputs is negative.  A totalSpent that is not a number is encoded   *)
(* by it too: the division of line 132 turns such a value into NaN.        *)
NaN == -1

(* Whether new Date(text) is a date at all: "2025-13-01" is not. *)
IsValidDate(date) == date.m \in 1..12 /\ date.d \in 1..31

GetTime(date) ==
    IF IsValidDate(date) THEN DaysFromCivil(date) * SecPerDay ELSE NaN

(* The calendar day a time value falls in (UTC). *)
CivilFromDays(days) ==
    LET z   == days + 719468
        era == z \div 146097
        doe == z - era * 146097
        yoe == (doe - doe \div 1460 + doe \div 36524 - doe \div 146096) \div 365
        doy == doe - (365 * yoe + yoe \div 4 - yoe \div 100)
        mp  == (5 * doy + 2) \div 153
        d   == doy - (153 * mp + 2) \div 5 + 1
        m   == IF mp < 10 THEN mp + 3 ELSE mp - 9
        y   == yoe + era * 400
    IN  Date(IF m <= 2 THEN y + 1 ELSE y, m, d)

Pad2(n) == IF n < 10 THEN "0" \o ToString(n) ELSE ToString(n)

(* new Date(t).toISOString().split('T')[0], line 124. *)
ToISODate(t) ==
    LET c == CivilFromDays(t \div SecPerDay)
    IN  ToString(c.y) \o "-" \o Pad2(c.m) \o "-" \o Pad2(c.d)

(* Array.prototype.sort((a, b) => a - b), line 118. *)
RECURSIVE Insert(_, _)
Insert(sorted, x) ==
    IF sorted = <<>> THEN <<x>>
    ELSE IF x < Head(sorted) THEN <<x>> \o sorted
    ELSE <<Head(sorted)>> \o Insert(Tail(sorted), x)

RECURSIVE SortAsc(_)
SortAsc(seq) ==
    IF seq = <<>> THEN <<>>
    ELSE Insert(SortAsc(SubSeq(seq, 1, Len(seq) - 1)), seq[Len(seq)])

Abs(x) == IF x < 0 THEN -x ELSE x

(* Math.ceil(a / b) for a >= 0, b > 0. *)
Ceil(a, b) == (a + b - 1) \div b

(* Lines 127-128 with the "+ 1" left out. *)
DiffDaysExclusive(minDate, maxDate) ==
    Ceil(Abs(maxDate - minDate), SecPerDay)

(* Lines 127-128: diffTime and diffDays, both end days counted. *)
DiffDays(minDate, maxDate) ==
    Ceil(Abs(maxDate - minDate), SecPerDay) + 1

(* Number((x / n).toFixed(2)) in hundredths: the nearest hundredth, the    *)
(* larger one of two equally near.  x / n with n below 40 is never within  *)
(* a rounding error of a tie unless it is one exactly.  NaN / n is NaN, and *)
(* Number(NaN.toFixed(2)) is NaN.                                          *)
ToFixed2(x, n) == IF x = NaN THEN NaN ELSE (200 * x + n) \div (2 * n)

(* period's initial value, line 112 (the literal is Korean for "no date    *)
(* information").                                                          *)
NoDatePeriod == "no date information"

(* data.transactions && data.transactions.length > 0, line 114. *)
HasTransactions(data) ==
    /\ "transactions" \in DOMAIN data
    /\ Len(data.transactions) > 0

(* Lines 116-118. *)
SortedTimes(data) ==
    SortAsc([i \in 1..Len(data.transactions) |-> GetTime(data.transactions[i].date)])

(* Lines 112-124. *)
Period(data) ==
    IF HasTransactions(data)
      THEN LET dates == SortedTimes(data)
           IN  ToISODate(dates[1]) \o " ~ " \o ToISODate(dates[Len(dates)])
      ELSE NoDatePeriod

(* The average computed as if a statement without dates covered one day. *)
AverageDailySpentOfOneDay(data) ==
    IF HasTransactions(data)
      THEN LET dates == SortedTimes(data)
           IN  ToFixed2(data.totalSpent, DiffDays(dates[1], dates[Len(dates)]))
      ELSE ToFixed2(data.totalSpent, 1)

(* Lines 111-133. *)
AverageDailySpent(data) ==
    IF HasTransactions(data)
      THEN LET dates    == SortedTimes(data)
               diffDays == DiffDays(dates[1], dates[Len(dates)])
           IN  IF diffDays > 0 THEN ToFixed2(data.totalSpent, diffDays) ELSE 0
      ELSE 0

(* Lines 136-142: finalResult = { ...data, period, averageDailySpent }.    *)
(* The keys written last win over the keys of data.                        *)
PostProcess(data) ==
    [period |-> Period(data), averageDailySpent |-> AverageDailySpent(data)] @@ data

HasNaN(seq) == \E i \in 1..Len(seq) : seq[i] = NaN

Orderings(seq) ==
    {[i \in 1..Len(seq) |-> seq[p[i]]] :
        p \in {q \in [1..Len(seq) -> 1..Len(seq)] :
                  \A i, j \in 1..Len(seq) : q[i] = q[j] => i = j}}

(* sort((a, b) => a - b) of line 118 with a NaN in the array: the          *)
(* comparator answers NaN, which is no consistent ordering, and the order  *)
(* of the result is then left to the implementation.                       *)
SortOutcomes(seq) == IF HasNaN(seq) THEN Orderings(seq) ELSE {SortAsc(seq)}

(* The fault an action ends with. *)
Threw(e) == [kind |-> "threw", error |-> e]

(* Lines 110-142 for every record JSON.parse can return.  With a date that *)
(* is no date among the transactions, toISOString of line 124 throws a     *)
(* RangeError when the first or the last element of the sorted array is    *)
(* NaN; otherwise the period and the day count come from whichever         *)
(* elements the sort left first and last.                                  *)
PostProcessOutcomes(data) ==
    IF ~HasTransactions(data) THEN {PostProcess(data)}
    ELSE LET times == [i \in 1..Len(data.transactions)
                          |-> GetTime(data.transactions[i].date)]
         IN  IF ~HasNaN(times) THEN {PostProcess(data)}
             ELSE {IF dates[1] = NaN \/ dates[Len(dates)] = NaN
                     THEN Threw("RangeError: Invalid time value")
                     ELSE [period |-> ToISODate(dates[1]) \o " ~ "
                                        \o ToISODate(dates[Len(dates)]),
                           averageDailySpent |->
                               ToFixed2(data.totalSpent,
                                        DiffDays(dates[1], dates[Len(dates)]))] @@ data
                   : dates \in SortOutcomes(times)}

(* analyzeFinancialText, part_001 lines 93-142: what the action does with  *)
(* the engine's response.  A failed call and JSON.parse of non-JSON text   *)
(* propagate the library's own exception; an empty body throws a plain     *)
(* Error.  None of them carries a code.  A JSON body is post-processed.    *)
AnalyzeOutcome(resp) ==
    CASE resp.kind = "callFailed" -> [ok |-> FALSE, error |-> "APIError"]
      [] resp.kind = "empty"      -> [ok |-> FALSE, error |-> "GPT returned an empty response."]
      [] resp.kind = "notJson"    -> [ok |-> FALSE, error |-> "SyntaxError"]
      [] OTHER                    -> [ok |-> TRUE, value |-> PostProcess(resp.data)]

(***************************************************************************)
(* handleUpload, src/App.tsx lines 143-273.  run[r].pc names the call the  *)
(* invocation is awaiting; the code between two awaits is synchronous and  *)
(* belongs to the step that ends at the next await.                        *)
(***************************************************************************)

DbUnchanged == UNCHANGED <<documents, storage, analysisResults, executionErrors,
                           nextDocId, nextStorageId>>

(* Uploads that have not yet received their storageId. *)
Uploading == {q \in DOMAIN run : run[q].pc \in {"generateUploadUrl", "fetch"}}

(* Lines 143-156: the guard on file and userId, then generateUploadUrl()   *)
(* is issued.  A session whose previous invocation has ended takes the     *)
(* next click, as the user `u` it is logged in as.                         *)
StartUpload(r, u) ==
    /\ run[r].pc \in {"idle", "done", "error"}
    /\ nextStorageId + Cardinality(Uploading) <= MaxDocs
    /\ run' = [run EXCEPT ![r] = [IdleRun EXCEPT !.pc = "generateUploadUrl",
                                                !.userId = u]]
    /\ DbUnchanged
    /\ UNCHANGED <<last, post, users>>

(* Lines 156-165: generateUploadUrl returns (or throws) and the POST of    *)
(* the file is issued.                                                     *)
UploadUrlReturns(r, ok) ==
    /\ run[r].pc = "generateUploadUrl"
    /\ IF ok THEN run' = [run EXCEPT ![r].pc = "fetch"]
             ELSE Catch(r, "upload", "generateUploadUrl failed")
    /\ DbUnchanged
    /\ UNCHANGED <<last, post, users>>

(* handleUpload without the check of result.ok (lines 167-171): the        *)
(* document is created whatever the POST answered.                         *)
FetchReturnsUnchecked(r, ok) ==
    /\ run[r].pc = "fetch"
    /\ IF ok
         THEN /\ storage' = storage \cup {nextStorageId}
              /\ nextStorageId' = nextStorageId + 1
              /\ run' = [run EXCEPT ![r].pc = "createDocument",
                                    ![r].storageId = nextStorageId]
         ELSE /\ run' = [run EXCEPT ![r].pc = "createDocument"]
              /\ UNCHANGED <<storage, nextStorageId>>
    /\ UNCHANGED <<documents, analysisResults, executionErrors, nextDocId, last, post, users>>

(* Lines 161-182: the POST answers.  result.ok false throws "Upload        *)
(* failed"; otherwise the blob is stored under a fresh storageId and       *)
(* createDocument is issued.                                               *)
FetchReturns(r, ok) ==
    /\ run[r].pc = "fetch"
    /\ IF ok
         THEN /\ storage' = storage \cup {nextStorageId}
              /\ nextStorageId' = nextStorageId + 1
              /\ run' = [run EXCEPT ![r].pc = "createDocument",
                                    ![r].storageId = nextStorageId]
         ELSE /\ Catch(r, "upload", "Upload failed")
              /\ UNCHANGED <<storage, nextStorageId>>
    /\ UNCHANGED <<documents, analysisResults, executionErrors, nextDocId, last, post, users>>

(* Lines 178-192: the create mutation runs and returns docId; extractText  *)
(* is issued at once, with no status update in between.                    *)
CreateReturns(r) ==
    /\ run[r].pc = "createDocument"
    /\ create("statement.pdf", run[r].storageId, run[r].userId)
    /\ run' = [run EXCEPT ![r].pc = "extractText", ![r].docId = nextDocId,
                          ![r].extractCalls = @ + 1]
    /\ UNCHANGED <<storage, analysisResults, executionErrors, nextStorageId, last, post, users>>

(* handleUpload with the failure of extractText swallowed: analyzeText is  *)
(* issued whatever extractText answered.                                   *)
ExtractReturnsThenAnalyzeAnyway(r, outcome) ==
    /\ run[r].pc = "extractText"
    /\ outcome \in ExtractOutcomes(run[r].storageId)
    /\ run' = [run EXCEPT ![r].pc = "analyzeText",
                          ![r].text = IF outcome = "text" THEN outcome ELSE "none",
                          ![r].analyzeCalls = @ + 1]
    /\ DbUnchanged
    /\ UNCHANGED <<last, post, users>>

(* Lines 188-214: extractText answers.  A throw is rethrown as "Text       *)
(* extraction failed: ..." and lands in the outer catch; on success        *)
(* analyzeText is issued.                                                  *)
ExtractReturns(r, outcome) ==
    /\ run[r].pc = "extractText"
    /\ outcome \in ExtractOutcomes(run[r].storageId)
    /\ IF outcome = "text"
         THEN run' = [run EXCEPT ![r].pc = "analyzeText", ![r].text = outcome,
                                   ![r].analyzeCalls = @ + 1]
         ELSE Catch(r, "extraction", outcome)
    /\ DbUnchanged
    /\ UNCHANGED <<last, post, users>>

(* Lines 213-233: analyzeText answers.  A throw is rethrown as "AI         *)
(* analysis failed: ..."; on success saveAnalysis is issued with the       *)
(* returned JSON.                                                          *)
AnalyzeReturns(r, resp) ==
    /\ run[r].pc = "analyzeText"
    /\ LET out == AnalyzeOutcome(resp) IN
         IF out.ok
           THEN run' = [run EXCEPT ![r].pc = "saveAnalysis",
                                   ![r].analysisResult = out.value]
           ELSE Catch(r, "analysis", out.error)
    /\ DbUnchanged
    /\ UNCHANGED <<last, post, users>>

(* handleUpload writing the status itself before the result is saved, so   *)
(* that a failed save leaves the status behind.                            *)
SaveReturnsStatusFirst(r, ok) ==
    /\ run[r].pc = "saveAnalysis"
    /\ IF run[r].docId \in DOMAIN documents
         THEN IF ok
                THEN /\ saveAnalysisResult(run[r].docId, run[r].analysisResult)
                     /\ run' = [run EXCEPT ![r] = [IdleRun EXCEPT !.pc = "done",
                                                      !.extractCalls = run[r].extractCalls,
                                                      !.analyzeCalls = run[r].analyzeCalls]]
                ELSE /\ PatchStatus(run[r].docId, "completed")
                     /\ Catch(r, "save", "Server Error")
                     /\ UNCHANGED analysisResults
         ELSE /\ Catch(r, "save", "Document not found")
              /\ UNCHANGED <<documents, analysisResults>>
    /\ UNCHANGED <<storage, executionErrors, nextDocId, nextStorageId, last, post, users>>

(* handleUpload that stays at the save after it succeeded and issues it    *)
(* again.                                                                  *)
SaveReturnsAndSavesAgain(r, ok) ==
    /\ run[r].pc = "saveAnalysis"
    /\ IF run[r].docId \in DOMAIN documents
         THEN IF ok
                THEN /\ saveAnalysisResult(run[r].docId, run[r].analysisResult)
                     /\ UNCHANGED run
                ELSE /\ Catch(r, "save", "Server Error")
                     /\ UNCHANGED <<documents, analysisResults>>
         ELSE /\ Catch(r, "save", "Document not found")
              /\ UNCHANGED <<documents, analysisResults>>
    /\ UNCHANGED <<storage, executionErrors, nextDocId, nextStorageId, last, post, users>>

(* handleUpload saving the result under the id of the newest document      *)
(* instead of the docId create returned to this invocation.                *)
SaveReturnsToNewest(r, ok) ==
    /\ run[r].pc = "saveAnalysis"
    /\ IF nextDocId - 1 \in DOMAIN documents
         THEN IF ok
                THEN /\ saveAnalysisResult(nextDocId - 1, run[r].analysisResult)
                     /\ run' = [run EXCEPT ![r] = [IdleRun EXCEPT !.pc = "done",
                                                      !.extractCalls = run[r].extractCalls,
                                                      !.analyzeCalls = run[r].analyzeCalls]]
                ELSE /\ Catch(r, "save", "Server Error")
                     /\ UNCHANGED <<documents, analysisResults>>
         ELSE /\ Catch(r, "save", "Document not found")
              /\ UNCHANGED <<documents, analysisResults>>
    /\ UNCHANGED <<storage, executionErrors, nextDocId, nextStorageId, last, post, users>>

(* Lines 229-254: saveAnalysis answers.  The mutation is one transaction:  *)
(* it either commits (ok) or throws with nothing written, because the row  *)
(* is gone or because the server rejects or loses the call.  A throw is    *)
(* rethrown as "Failed to save analysis: ..."; on success the run ends     *)
(* with the success modal.                                                 *)
SaveReturns(r, ok) ==
    /\ run[r].pc = "saveAnalysis"
    /\ IF run[r].docId \in DOMAIN documents
         THEN IF ok
                THEN /\ saveAnalysisResult(run[r].docId, run[r].analysisResult)
                     /\ run' = [run EXCEPT ![r] = [IdleRun EXCEPT !.pc = "done",
                                                      !.extractCalls = run[r].extractCalls,
                                                      !.analyzeCalls = run[r].analyzeCalls]]
                ELSE /\ Catch(r, "save", "Server Error")
                     /\ UNCHANGED <<documents, analysisResults>>
         ELSE /\ Catch(r, "save", "Document not found")
              /\ UNCHANGED <<documents, analysisResults>>
    /\ UNCHANGED <<storage, executionErrors, nextDocId, nextStorageId, last, post, users>>

Next ==
    \/ \E r \in Runs, u \in UserId : StartUpload(r, u)
    \/ \E r \in Runs, ok \in BOOLEAN : UploadUrlReturns(r, ok)
    \/ \E r \in Runs, ok \in BOOLEAN : FetchReturns(r, ok)
    \/ \E r \in Runs : CreateReturns(r)
    \/ \E r \in Runs, o \in {"text", "File not found", "Failed to extract text from PDF."} :
          ExtractReturns(r, o)
    \/ \E r \in Runs, resp \in EngineResponse : AnalyzeReturns(r, resp)
    \/ \E r \in Runs, ok \in BOOLEAN : SaveReturns(r, ok)
    \/ \E c \in UserId, d \in DocId, s \in StatusArg : updateStatus(c, d, s)
    \/ \E d \in DocId, u \in UserId : deleteDocument(d, u)

Spec == Init /\ [][Next]_vars

(***************************************************************************)
(* Properties.                                                             *)
(***************************************************************************)

(* The rows of analysisResults whose documentId is d (index by_documentId). *)
ResultsFor(B, d) ==
    [row \in {x \in BagToSet(B) : x.documentId = d} |-> B[row]]

ErrorsFor(d, step) ==
    {i \in 1..Len(executionErrors) :
        executionErrors[i].documentId = d /\ executionErrors[i].step = step}

(* The edges of the status machine of the data model. *)
StatusEdges ==
    {<<"pending", "extracting">>, <<"extracting", "analyzing">>,
     <<"analyzing", "completed">>, <<"extracting", "failed">>,
     <<"analyzing", "failed">>}

(* C1: in every reachable state and for every stored document, the status  *)
(* is completed if and only if exactly one AnalysisResult exists for that  *)
(* document.                                                               *)
CompletedIffOneResult ==
    \A d \in DOMAIN documents :
        (documents[d].status = "completed") <=> (BagCardinality(ResultsFor(analysisResults, d)) = 1)

(* C2: every change of a stored document's status follows one of the edges *)
(* pending->extracting, extracting->analyzing, analyzing->completed,       *)
(* extracting->failed, analyzing->failed; completed and failed are never   *)
(* left, and no status is skipped or revisited.                            *)
OnlyStatusEdges ==
    [][\A d \in (DOMAIN documents) \cap (DOMAIN documents') :
          documents'[d].status # documents[d].status
              => <<documents[d].status, documents'[d].status>> \in StatusEdges]_vars

(* C3: while extractText is in progress for a document its stored status   *)
(* is extracting, and while analyzeFinancialText is in progress it is      *)
(* analyzing; no external call is in progress for a document whose stored  *)
(* status is still pending.                                                *)
StatusRecordedBeforeCall ==
    \A r \in Runs :
        /\ (run[r].pc = "extractText" /\ run[r].docId \in DOMAIN documents)
              => documents[run[r].docId].status = "extracting"
        /\ (run[r].pc = "analyzeText" /\ run[r].docId \in DOMAIN documents)
              => documents[run[r].docId].status = "analyzing"

(* C4: the step in which a run catches the failure of its extraction or    *)
(* analysis call leaves the document with status failed and with an        *)
(* ExecutionError row for that stage.                                      *)
StageFailureRecorded ==
    [][\A r \in Runs :
          (/\ run[r].pc \in {"extractText", "analyzeText"}
           /\ run'[r].pc = "error"
           /\ run[r].docId \in DOMAIN documents')
              => /\ documents'[run[r].docId].status = "failed"
                 /\ \E i \in 1..Len(executionErrors') :
                       /\ executionErrors'[i].documentId = run[r].docId
                       /\ executionErrors'[i].step = run'[r].errorStage]_vars

(* C5: in every reachable state a document whose status is failed has at   *)
(* least one ExecutionError row, for the extraction or the analysis step.  *)
FailedHasExecutionError ==
    \A d \in DOMAIN documents :
        documents[d].status = "failed"
            => \E step \in Step : ErrorsFor(d, step) # {}

(* C6: a trigger that asks to move a document to extracting while its     *)
(* status is no longer pending aborts: it is not answered with success and *)
(* it changes no stored document, so that of two concurrent triggers on    *)
(* one pending document exactly one proceeds.                              *)
BeginExtractionOnlyFromPending ==
    [][\A c \in UserId : \A d \in DOMAIN documents :
          (documents[d].status # "pending" /\ updateStatus(c, d, "extracting"))
              => (last'.err # "ok" /\ UNCHANGED documents)]_vars

(* C7: in every reachable state the status of every stored document is one *)
(* of pending, extracting, analyzing, completed, failed.                   *)
StatusInEnumeration ==
    \A d \in DOMAIN documents : documents[d].status \in Status

(* A document has left pending and a call of updateStatus with a status    *)
(* outside the enumeration has been answered.                              *)
InvalidStatusRejectedWitness ==
    /\ last = Call("updateStatus", "ArgumentValidationError")
    /\ \E d \in DOMAIN documents : documents[d].status # "pending"

(* C8: deleteDocument called for a stored document with a userId that is   *)
(* not its ownerId is answered with the not-authorized error and leaves    *)
(* the documents table and the blob store exactly as they were.            *)
NonOwnerDeleteRejected ==
    [][\A d \in DOMAIN documents : \A u \in UserId :
          (documents[d].ownerId # u /\ deleteDocument(d, u))
              => (last'.err = "Not authorized" /\ UNCHANGED <<documents, storage>>)]_vars

(* A non-owner's deleteDocument has just been rejected, and the document   *)
(* of the other user and its blob are still there.                         *)
NonOwnerDeleteWitness ==
    /\ last = Call("deleteDocument", "Not authorized")
    /\ \E d \in DOMAIN documents : documents[d].storageId \in storage

(* C9: a mutation of a document called by a user who is not the document's *)
(* owner, updateStatus included, is answered with the not-authorized error *)
(* and leaves the documents table unchanged.                               *)
NonOwnerUpdateRejected ==
    [][\A c \in UserId : \A d \in DOMAIN documents : \A s \in StatusArg :
          (documents[d].ownerId # c /\ updateStatus(c, d, s))
              => (last'.err = "Not authorized" /\ UNCHANGED documents)]_vars

(* C10: when the engine's text is not valid JSON, the run's analysis stage *)
(* fails with code MODEL_MALFORMED_JSON, the document's status becomes     *)
(* failed and no AnalysisResult exists for the document.                   *)
NonJsonIsMalformedJsonFailure ==
    [][\A r \in Runs :
          (/\ AnalyzeReturns(r, [kind |-> "notJson"])
           /\ run[r].docId \in DOMAIN documents)
              => /\ run'[r].error = "MODEL_MALFORMED_JSON"
                 /\ documents'[run[r].docId].status = "failed"
                 /\ ResultsFor(analysisResults', run[r].docId) = EmptyBag]_vars

(* C11: when the engine returns an empty body, the analysis stage yields   *)
(* the outcome MODEL_EMPTY_RESPONSE, a failure value and not a thrown      *)
(* fault, different from the outcome for malformed JSON; nothing is        *)
(* post-processed and no AnalysisResult is written.                        *)
EmptyBodyIsEmptyResponseFailure ==
    [][\A r \in Runs :
          AnalyzeReturns(r, [kind |-> "empty"])
              => /\ run'[r].error = "MODEL_EMPTY_RESPONSE"
                 /\ run'[r].error # AnalyzeOutcome([kind |-> "notJson"]).error
                 /\ UNCHANGED analysisResults]_vars

(* C13: the step that ends a run (success or caught failure) leaves the    *)
(* run's document, if it is still stored, in a terminal status: completed  *)
(* or failed, never pending, extracting or analyzing.                      *)
FinishedRunLeavesTerminalStatus ==
    [][\A r \in Runs :
          (/\ run[r].pc \in {"extractText", "analyzeText", "saveAnalysis"}
           /\ run'[r].pc \in {"done", "error"}
           /\ run[r].docId \in DOMAIN documents')
              => documents'[run[r].docId].status \in {"completed", "failed"}]_vars

(* C12: when saving the AnalysisResult at the end of a run fails, the      *)
(* documents table (the status in particular) and the analysisResults      *)
(* table are left exactly as they were before the attempt, and no          *)
(* AnalysisResult exists for the run's document.                           *)
FailedSaveWritesNothing ==
    [][\A r \in Runs :
          (run[r].pc = "saveAnalysis" /\ run'[r].pc = "error")
              => /\ UNCHANGED <<documents, analysisResults>>
                 /\ ResultsFor(analysisResults', run[r].docId) = EmptyBag]_vars

(* A run's save has failed while its document was stored, and a document   *)
(* that never got a result is still pending.                               *)
FailedSaveWitness ==
    /\ \E r \in Runs : run[r].pc = "error" /\ run[r].error = "Server Error"
    /\ \E d \in DOMAIN documents :
          /\ documents[d].status = "pending"
          /\ ResultsFor(analysisResults, d) = EmptyBag

(***************************************************************************)
(* The post-processing on its own: the engine's parsed record is drawn     *)
(* from DataInput, one of the two copies of analyzeFinancialText produces  *)
(* the result, and the derived fields are computed once more from the      *)
(* result.                                                                 *)
(***************************************************************************)

(* Longest transaction list drawn. *)
MaxTx == 3

(* Transaction dates the engine is asked to write as YYYY-MM-DD (prompt,   *)
(* part_001 line 61): across a year's end and a month's end.               *)
Dates == {Date(2024, 12, 31), Date(2025, 1, 5), Date(2025, 1, 10),
          Date(2025, 1, 12), Date(2025, 2, 1)}

TotalSpent == {0, 1, 300}

(* The period the older prompt asks the engine for (actions.ts line 59). *)
EnginePeriod == "2025-12-11 ~ 2026-01-10"

(* A date text that is no date: "2025-13-01". *)
InvalidDate == Date(2025, 13, 1)

(* The categories the prompt lists (part_001 lines 67-74). *)
Category == {"Food", "Shopping", "Transport", "Utilities", "Travel",
             "Transaction", "Other"}

(* Records of one categorised transaction, some of them outside the        *)
(* schema: a category the prompt does not list, a date that is no date, a  *)
(* totalSpent that is not a number.                                        *)
CategorisedInput ==
    {[totalSpent |-> t, transactions |-> <<[date |-> d, category |-> c]>>] :
        t \in {300, NaN}, d \in {Date(2025, 1, 5), InvalidDate},
        c \in {"Food", "Gambling"}}

TransactionLists ==
    UNION {[1..n -> {[date |-> d] : d \in Dates \cup {InvalidDate}}] : n \in 0..MaxTx}

(* What JSON.parse can return: with or without a transactions key, with or *)
(* without a period written by the engine, with or without categories.     *)
DataInput ==
    LET core == {[totalSpent |-> t, transactions |-> txs] :
                    t \in TotalSpent, txs \in TransactionLists}
                \cup {[totalSpent |-> t] : t \in TotalSpent}
    IN  core \cup {[period |-> EnginePeriod] @@ c : c \in core} \cup CategorisedInput

PipelineVars == <<documents, storage, analysisResults, executionErrors,
                  nextDocId, nextStorageId, run, last, users>>

InitPost ==
    /\ documents = <<>>
    /\ storage = {}
    /\ analysisResults = EmptyBag
    /\ executionErrors = <<>>
    /\ nextDocId = 1
    /\ nextStorageId = 1
    /\ run = [r \in Runs |-> IdleRun]
    /\ last = NoCall
    /\ post \in {[NoPost EXCEPT !.data = d] : d \in DataInput}
    /\ users = <<>>

(* analyzeFinancialText of part_001, lines 108-142: parse, post-process,   *)
(* return finalResult.                                                     *)
Analyze ==
    /\ post.by = "none"
    /\ \E out \in PostProcessOutcomes(post.data) :
          post' = [post EXCEPT !.by = "part_001", !.result = out]
    /\ UNCHANGED PipelineVars

(* analyzeFinancialText of convex/actions.ts, line 103: the parsed record  *)
(* is returned as the engine wrote it.                                     *)
AnalyzeWithoutPostProcessing ==
    /\ post.by = "none"
    /\ post' = [post EXCEPT !.by = "actions.ts", !.result = post.data]
    /\ UNCHANGED PipelineVars

(* The derived fields computed again, from the returned result. *)
Recompute ==
    /\ post.by # "none"
    /\ post.again = NoResult
    /\ "totalSpent" \in DOMAIN post.result
    /\ \E out \in PostProcessOutcomes(post.result) :
          post' = [post EXCEPT !.again = out]
    /\ UNCHANGED PipelineVars

NextPost ==
    \/ Analyze
    \/ AnalyzeWithoutPostProcessing
    \/ Recompute

SpecPost == InitPost /\ [][NextPost]_vars

(***************************************************************************)
(* The calendar, independently of time values: used to state what the      *)
(* post-processing must compute.                                           *)
(***************************************************************************)

IsLeapYear(y) == (y % 4 = 0 /\ y % 100 # 0) \/ y % 400 = 0

DaysInMonth(y, m) ==
    IF m = 2 THEN (IF IsLeapYear(y) THEN 29 ELSE 28)
    ELSE IF m \in {4, 6, 9, 11} THEN 30 ELSE 31

NextDay(date) ==
    IF date.d < DaysInMonth(date.y, date.m) THEN Date(date.y, date.m, date.d + 1)
    ELSE IF date.m < 12 THEN Date(date.y, date.m + 1, 1)
    ELSE Date(date.y + 1, 1, 1)

(* a is the same day as b or an earlier one. *)
NotAfter(a, b) ==
    \/ a.y < b.y
    \/ a.y = b.y /\ a.m < b.m
    \/ a.y = b.y /\ a.m = b.m /\ a.d <= b.d

(* The number of calendar days from a to b, both counted. *)
RECURSIVE CountDays(_, _)
CountDays(a, b) == IF a = b THEN 1 ELSE 1 + CountDays(NextDay(a), b)

DateSet(data) == {data.transactions[i].date : i \in 1..Len(data.transactions)}

Earliest(data) == CHOOSE a \in DateSet(data) : \A b \in DateSet(data) : NotAfter(a, b)

Latest(data) == CHOOSE a \in DateSet(data) : \A b \in DateSet(data) : NotAfter(b, a)

IsoText(date) ==
    ToString(date.y) \o "-" \o (IF date.m < 10 THEN "0" ELSE "") \o ToString(date.m)
                     \o "-" \o (IF date.d < 10 THEN "0" ELSE "") \o ToString(date.d)

(* a hundredths is total / n rounded to two decimals. *)
IsRoundedQuotient(a, total, n) ==
    /\ -n < 2 * (a * n - 100 * total)
    /\ 2 * (a * n - 100 * total) <= n

(* C14: for a non-empty transaction list of calendar dates, in any order,  *)
(* the post-processing yields period = "<earliest> ~ <latest>", a day      *)
(* count of the days from the earliest to the latest date with both        *)
(* counted, and averageDailySpent = totalSpent / dayCount rounded to two   *)
(* decimals; dates 2025-01-10, 2025-01-05, 2025-01-12 with totalSpent 300  *)
(* give "2025-01-05 ~ 2025-01-12", 8 days and 37.50.                       *)
PostProcessingOfDatedList ==
    (/\ post.by = "part_001"
     /\ "transactions" \in DOMAIN post.data
     /\ post.data.transactions # <<>>
     /\ \A date \in DateSet(post.data) : IsValidDate(date)
     /\ post.data.totalSpent # NaN)
        => LET first    == Earliest(post.data)
               final    == Latest(post.data)
               dayCount == CountDays(first, final)
           IN  /\ post.result.period = IsoText(first) \o " ~ " \o IsoText(final)
               /\ DiffDays(GetTime(first), GetTime(final)) = dayCount
               /\ IsRoundedQuotient(post.result.averageDailySpent,
                                    post.data.totalSpent, dayCount)
               /\ (/\ DateSet(post.data) = DateSet(ExampleData)
                   /\ post.data.totalSpent = 300)
                      => /\ post.result.period = "2025-01-05 ~ 2025-01-12"
                         /\ dayCount = 8
                         /\ post.result.averageDailySpent = 3750

(* The spec's example has been post-processed, its dates out of order. *)
PostProcessingExampleWitness ==
    /\ post.by = "part_001"
    /\ post.data.totalSpent = 300
    /\ "transactions" \in DOMAIN post.data
    /\ post.data.transactions = ExampleData.transactions
    /\ post.result.period = "2025-01-05 ~ 2025-01-12"
    /\ post.result.averageDailySpent = 3750

(* C15: when the engine's record has an empty transaction list, or none,   *)
(* the post-processing returns averageDailySpent = 0 and the               *)
(* no-date-information period, whatever totalSpent is and whatever period  *)
(* the engine wrote.                                                       *)
NoTransactionsGiveSentinel ==
    (/\ post.by = "part_001"
     /\ ("transactions" \notin DOMAIN post.data \/ post.data.transactions = <<>>))
        => /\ post.result.averageDailySpent = 0
           /\ post.result.period = "no date information"

(* A record with a positive total and no transactions key has been         *)
(* post-processed.                                                         *)
NoTransactionsWitness ==
    /\ post.by = "part_001"
    /\ "transactions" \notin DOMAIN post.data
    /\ post.data.totalSpent = 300
    /\ post.result.averageDailySpent = 0
    /\ post.result.period = NoDatePeriod

(* C16: the period and averageDailySpent of an analysis result are a       *)
(* function of its transaction list and totalSpent only: computing them    *)
(* from the result gives the values the result holds, computing them a     *)
(* second time gives the same again, and a period written by the engine is *)
(* never the period of the result.                                         *)
DerivedFieldsAreRecomputable ==
    post.by # "none"
        => /\ "period" \in DOMAIN post.result
           /\ "averageDailySpent" \in DOMAIN post.result
           /\ \A out \in PostProcessOutcomes(post.result) :
                 /\ "period" \in DOMAIN out
                 /\ out.period = post.result.period
                 /\ out.averageDailySpent = post.result.averageDailySpent
           /\ post.again # NoResult
                 => /\ post.again = post.result
                    /\ PostProcessOutcomes(post.again) = {post.again}
           /\ "period" \in DOMAIN post.data => post.result.period # post.data.period

(* C17: after deleteDocument has succeeded for the owner, neither the      *)
(* document's row nor its blob exists, and no call of deleteDocument,      *)
(* whatever its outcome, removes exactly one of the two.                   *)
DeleteRemovesRowAndBlob ==
    [][\A d \in DOMAIN documents : \A u \in UserId :
          deleteDocument(d, u)
              => LET blob        == documents[d].storageId
                     rowRemoved  == d \notin DOMAIN documents'
                     blobRemoved == blob \in storage /\ blob \notin storage'
                 IN  /\ rowRemoved <=> blobRemoved
                     /\ documents[d].ownerId = u
                           => /\ last'.err = "ok"
                              /\ d \notin DOMAIN documents'
                              /\ blob \notin storage']_vars

(* The only uploaded document has been deleted by its owner: no row and no *)
(* blob is left.                                                           *)
DeletedWitness ==
    /\ last = Call("deleteDocument", "ok")
    /\ nextDocId = 2
    /\ nextStorageId = 2
    /\ documents = <<>>
    /\ storage = {}

(***************************************************************************)
(* list, documents.ts lines 35-44: the rows of the index by_ownerId with   *)
(* ownerId = userId, in descending order of the index, that is newest      *)
(* first (_creationTime; ids are handed out in creation order).            *)
(***************************************************************************)

(* The rows of owner userId with an id of at most n, newest first. *)
RECURSIVE CollectDesc(_, _)
CollectDesc(userId, n) ==
    IF n = 0 THEN <<>>
    ELSE (IF n \in DOMAIN documents /\ documents[n].ownerId = userId
            THEN <<[id |-> n] @@ documents[n]>>
            ELSE <<>>)
         \o CollectDesc(userId, n - 1)

(* list without .order("desc"). *)
listAscending(userId) ==
    LET l == CollectDesc(userId, MaxDocs)
    IN  [i \in 1..Len(l) |-> l[Len(l) + 1 - i]]

list(userId) == CollectDesc(userId, MaxDocs)

(* C18: list(userId) returns exactly the stored documents whose ownerId is *)
(* userId, each once, none of another owner, the newest first.             *)
ListIsOwnersNewestFirst ==
    \A u \in UserId :
        LET l == list(u)
        IN  /\ {l[i].id : i \in 1..Len(l)}
                  = {d \in DOMAIN documents : documents[d].ownerId = u}
            /\ \A i \in 1..Len(l) :
                  /\ l[i].ownerId = u
                  /\ l[i].status = documents[l[i].id].status
                  /\ l[i].storageId = documents[l[i].id].storageId
            /\ \A i, j \in 1..Len(l) : i < j => l[i].id > l[j].id

(* One user lists two documents while the other user owns none of them. *)
ListOfTwoWitness ==
    \E u \in UserId :
        /\ Len(list(u)) = 2
        /\ list(u)[1].id = 2
        /\ list(u)[2].id = 1

(* C19: the row create inserts has status pending, the supplied userId as  *)
(* ownerId and the supplied storageId as blob reference, it gets an id no  *)
(* stored row has, and every other row is left as it was.                  *)
CreateInsertsPendingRow ==
    [][\A r \in Runs :
          CreateReturns(r)
              => /\ nextDocId \notin DOMAIN documents
                 /\ DOMAIN documents' = DOMAIN documents \cup {nextDocId}
                 /\ documents'[nextDocId].status = "pending"
                 /\ documents'[nextDocId].ownerId = run[r].userId
                 /\ documents'[nextDocId].storageId = run[r].storageId
                 /\ \A d \in DOMAIN documents : documents'[d] = documents[d]]_vars

(* A second document has just been created by u2 while the first, owned by *)
(* u1, is completed: the new row is pending and the old one is untouched.  *)
CreatedSecondWitness ==
    /\ \E r \in Runs : run[r].pc = "extractText" /\ run[r].docId = 2
    /\ DOMAIN documents = {1, 2}
    /\ documents[1].ownerId = "u1"
    /\ documents[1].status = "completed"
    /\ documents[2].ownerId = "u2"
    /\ documents[2].status = "pending"
    /\ documents[2].storageId \in storage

(* C20: within one run, analyzeText is issued only by the step in which    *)
(* extractText returned text for the run's document; a failed extraction   *)
(* ends the run without analyzeText being issued; and an AnalysisResult is *)
(* saved only by a run whose analyzeText returned a result, for that run's *)
(* document.                                                               *)
AnalyzeOnlyAfterExtract ==
    [][\A r \in Runs :
          /\ (run'[r].pc = "analyzeText" /\ run[r].pc # "analyzeText")
                => /\ run[r].pc = "extractText"
                   /\ run'[r].text = "text"
                   /\ run'[r].docId = run[r].docId
          /\ (run[r].pc = "extractText" /\ run'[r].text # "text")
                => run'[r].pc \in {"extractText", "error"}
          /\ (run'[r].pc = "saveAnalysis" /\ run[r].pc # "saveAnalysis")
                => /\ run[r].pc = "analyzeText"
                   /\ run[r].text = "text"
                   /\ run'[r].analysisResult \in {AnalyzeOutcome(e).value : e \in EngineRecord}
                   /\ run'[r].docId = run[r].docId
          /\ analysisResults' # analysisResults
                => \E q \in Runs :
                      /\ run[q].pc = "saveAnalysis"
                      /\ run[q].analysisResult # NoAnalysis
                      /\ analysisResults'
                            = analysisResults
                                 (+) SetToBag({[documentId |-> run[q].docId,
                                                analysis |-> run[q].analysisResult]})]_vars

(* A run's extraction has failed after an earlier run saved its result:    *)
(* the failed run's document has no AnalysisResult.                        *)
ExtractionFailedWitness ==
    /\ \E r \in Runs : run[r].pc = "error" /\ run[r].errorStage = "extraction"
    /\ DOMAIN documents = {1, 2}
    /\ ResultsFor(analysisResults, 1) # EmptyBag
    /\ ResultsFor(analysisResults, 2) = EmptyBag

(* C21: within one run extractText is called at most once and analyzeText  *)
(* at most once, and a run that ended in a stage failure has called        *)
(* exactly the operations up to the failing one, once each: none after a   *)
(* failed upload, extractText alone after a failed extraction.             *)
EachOperationAtMostOnce ==
    \A r \in Runs :
        /\ run[r].extractCalls <= 1
        /\ run[r].analyzeCalls <= run[r].extractCalls
        /\ run[r].pc = "extractText" => run[r].analyzeCalls = 0
        /\ run[r].pc = "error"
              => /\ run[r].extractCalls
                       = (IF run[r].errorStage = "upload" THEN 0 ELSE 1)
                 /\ run[r].analyzeCalls
                       = (IF run[r].errorStage \in {"upload", "extraction"} THEN 0 ELSE 1)

(* A run has ended in a failed analysis after one call of each operation. *)
FailedAnalysisWitness ==
    \E r \in Runs :
        /\ run[r].pc = "error"
        /\ run[r].errorStage = "analysis"
        /\ run[r].extractCalls = 1
        /\ run[r].analyzeCalls = 1

(* The number of rows of analysisResults equal to row. *)
Copies(B, row) == IF row \in BagToSet(B) THEN B[row] ELSE 0

(* C22: an AnalysisResult is created for a document only by the save of a  *)
(* run whose analysis succeeded for that document, no document ever has    *)
(* more than one, and a stored AnalysisResult is never changed or removed  *)
(* by a later operation.                                                   *)
ResultCreatedOnceAndKept ==
    [][/\ \A d \in DocId : BagCardinality(ResultsFor(analysisResults', d)) <= 1
       /\ \A row \in BagToSet(analysisResults) :
             Copies(analysisResults', row) = Copies(analysisResults, row)
       /\ \A row \in BagToSet(analysisResults') \ BagToSet(analysisResults) :
             \E r \in Runs :
                /\ run[r].pc = "saveAnalysis"
                /\ run[r].analyzeCalls = 1
                /\ row = [documentId |-> run[r].docId,
                          analysis |-> run[r].analysisResult]
                /\ row.analysis \in {AnalyzeOutcome(e).value : e \in EngineRecord}]_vars

(* Two documents have one AnalysisResult each, and the first document has  *)
(* been deleted since: its result is still stored as it was saved.         *)
TwoResultsWitness ==
    /\ BagCardinality(analysisResults) = 2
    /\ BagCardinality(ResultsFor(analysisResults, 1)) = 1
    /\ BagCardinality(ResultsFor(analysisResults, 2)) = 1
    /\ DOMAIN documents = {2}

(* C23: the ExecutionError rows only grow: no step changes or removes a    *)
(* stored row, and the step in which a run's extraction or analysis fails  *)
(* appends exactly one row, for the run's document and the failing step.   *)
ExecutionErrorsAppendOnly ==
    [][/\ Len(executionErrors') >= Len(executionErrors)
       /\ SubSeq(executionErrors', 1, Len(executionErrors)) = executionErrors
       /\ \A r \in Runs :
             (/\ run[r].pc \in {"extractText", "analyzeText"}
              /\ run'[r].pc = "error")
                 => /\ Len(executionErrors') = Len(executionErrors) + 1
                    /\ executionErrors'[Len(executionErrors')].documentId = run[r].docId
                    /\ executionErrors'[Len(executionErrors')].step
                          = run'[r].errorStage]_vars

(* C24: a document is committed only after the upload destination was      *)
(* issued and the transfer succeeded: every document ever created          *)
(* references a blob of its own that a successful transfer stored, a run   *)
(* that has not passed the transfer has no document and has called neither *)
(* extractText nor analyzeText, and a run whose upload failed ended so.    *)
DocumentOnlyAfterTransfer ==
    /\ nextDocId + Cardinality({r \in Runs : run[r].pc = "createDocument"})
          = nextStorageId
    /\ \A d \in DOMAIN documents : documents[d].storageId \in 1..(nextStorageId - 1)
    /\ \A d, e \in DOMAIN documents :
          documents[d].storageId = documents[e].storageId => d = e
    /\ \A r \in Runs :
          (\/ run[r].pc \in {"generateUploadUrl", "fetch"}
           \/ run[r].pc = "error" /\ run[r].errorStage = "upload")
              => /\ run[r].docId = NoId
                 /\ run[r].extractCalls = 0
                 /\ run[r].analyzeCalls = 0

(* A transfer has answered not-ok: nothing was stored and no document was  *)
(* created.                                                                *)
FailedTransferWitness ==
    /\ \E r \in Runs : run[r].pc = "error" /\ run[r].error = "Upload failed"
    /\ documents = <<>>
    /\ storage = {}
    /\ nextDocId = 1

(* The record the schema describes: a numeric totalSpent, and transactions *)
(* whose date is a date and whose category is one of the listed ones.      *)
ValidRecord(data) ==
    /\ data.totalSpent # NaN
    /\ "transactions" \in DOMAIN data
    /\ \A i \in 1..Len(data.transactions) :
          /\ IsValidDate(data.transactions[i].date)
          /\ "category" \in DOMAIN data.transactions[i]
          /\ data.transactions[i].category \in Category

(* C25: analyzeFinancialText answers a parsed value that violates the      *)
(* schema (a category outside the enumeration, a date that is no date, a   *)
(* totalSpent that is not a number) with a tagged parse-error: it neither  *)
(* returns the value as a result nor throws from the post-processing.      *)
SchemaViolationIsParseError ==
    (/\ post.by = "part_001"
     /\ post.data \in CategorisedInput
     /\ ~ValidRecord(post.data))
        => /\ "kind" \in DOMAIN post.result
           /\ post.result.kind = "parseError"

(***************************************************************************)
(* The summary at the top of the document list, App.tsx lines 635-677, for *)
(* a user with one completed document.                                     *)
(***************************************************************************)

(* Lines 652-655: the time values that are not NaN, ascending. *)
ClientDates(analysis) ==
    SortAsc(SelectSeq([i \in 1..Len(analysis.transactions)
                          |-> GetTime(analysis.transactions[i].date)],
                      LAMBDA t : t # NaN))

(* Lines 641-677: totalSpent, totalDays, the period shown and the average. *)
ClientSummary(analysis) ==
    LET totalSpent == IF analysis.totalSpent = NaN THEN 0 ELSE analysis.totalSpent
        dates      == IF HasTransactions(analysis) THEN ClientDates(analysis) ELSE <<>>
        totalDays  == IF dates = <<>> THEN 0 ELSE DiffDays(dates[1], dates[Len(dates)])
    IN  [dayCount |-> totalDays,
         period |-> IF dates = <<>> THEN "none"
                    ELSE ToISODate(dates[1]) \o " ~ " \o ToISODate(dates[Len(dates)]),
         averageDailySpent |-> IF totalDays > 0 THEN ToFixed2(totalSpent, totalDays)
                               ELSE 0]

(* C28: for every analysis record with transactions that the               *)
(* post-processing returned, the client's recomputation gives the period   *)
(* and the average daily spend the record holds, also when some of the     *)
(* transaction dates are no dates.                                         *)
ClientAgreesWithServer ==
    (/\ post.by = "part_001"
     /\ "totalSpent" \in DOMAIN post.result
     /\ post.result.totalSpent # NaN
     /\ HasTransactions(post.result))
        => /\ ClientSummary(post.result).period = post.result.period
           /\ ClientSummary(post.result).averageDailySpent
                 = post.result.averageDailySpent

(* C26: extractText changes no stored entity, whether it returns text or   *)
(* fails, and its failure for a blob reference that does not resolve is    *)
(* told apart from its failure for a binary it cannot read: the first is   *)
(* reported exactly when the blob does not exist.                          *)
ExtractTextChangesNothing ==
    [][\A r \in Runs :
          \A o \in {"text", "File not found", "Failed to extract text from PDF."} :
             ExtractReturns(r, o)
                => /\ UNCHANGED <<documents, storage, analysisResults,
                                  executionErrors, nextDocId, nextStorageId>>
                   /\ (o = "File not found") <=> (run[r].storageId \notin storage)
                   /\ o # "text" => /\ run'[r].pc = "error"
                                    /\ run'[r].error = o]_vars

(* extractText has failed for a blob that was deleted while the run was    *)
(* waiting for it.                                                         *)
BlobNotFoundWitness ==
    /\ \E r \in Runs : run[r].pc = "error" /\ run[r].error = "File not found"
    /\ nextDocId = 2
    /\ documents = <<>>
    /\ storage = {}

(***************************************************************************)
(* Two browser sessions uploading at the same time: every await of one     *)
(* handleUpload is a point where the steps of the other interleave.  Each  *)
(* session is logged in as one user.                                       *)
(***************************************************************************)

Tabs == {"tabA", "tabB"}

UserOf(tab) == IF tab = "tabA" THEN "u1" ELSE "u2"

InitTwo ==
    /\ documents = <<>>
    /\ storage = {}
    /\ analysisResults = EmptyBag
    /\ executionErrors = <<>>
    /\ nextDocId = 1
    /\ nextStorageId = 1
    /\ run = [r \in Tabs |-> IdleRun]
    /\ last = NoCall
    /\ post = NoPost
    /\ users = <<>>

NextTwo ==
    \/ \E r \in Tabs : StartUpload(r, UserOf(r))
    \/ \E r \in Tabs, ok \in BOOLEAN : UploadUrlReturns(r, ok)
    \/ \E r \in Tabs, ok \in BOOLEAN : FetchReturns(r, ok)
    \/ \E r \in Tabs : CreateReturns(r)
    \/ \E r \in Tabs, o \in {"text", "File not found", "Failed to extract text from PDF."} :
          ExtractReturns(r, o)
    \/ \E r \in Tabs, resp \in EngineResponse : AnalyzeReturns(r, resp)
    \/ \E r \in Tabs, ok \in BOOLEAN : SaveReturns(r, ok)

SpecTwo == InitTwo /\ [][NextTwo]_vars

(* C27: under every interleaving of two runs, a step of one run leaves the *)
(* other run, every document but its own, and the AnalysisResults and      *)
(* ExecutionErrors of every document but its own as they were; and what a  *)
(* run's last step leaves behind depends on that run's own call alone: a   *)
(* committed save leaves its document completed with the one result it     *)
(* computed, a failure leaves its document pending without a result.       *)
RunsAreIndependent ==
    [][\A a \in Tabs :
          run'[a] # run[a]
             => /\ \A b \in Tabs \ {a} : run'[b] = run[b]
                /\ \A d \in DOMAIN documents :
                      d # run[a].docId
                         => /\ d \in DOMAIN documents'
                            /\ documents'[d] = documents[d]
                            /\ ResultsFor(analysisResults', d)
                                  = ResultsFor(analysisResults, d)
                /\ executionErrors' = executionErrors
                /\ (run[a].pc = "saveAnalysis" /\ run'[a].pc = "done")
                      => /\ documents'[run[a].docId].status = "completed"
                         /\ ResultsFor(analysisResults', run[a].docId)
                               = SetToBag({[documentId |-> run[a].docId,
                                            analysis |-> run[a].analysisResult]})
                /\ (run[a].docId # NoId /\ run'[a].pc = "error")
                      => /\ documents'[run[a].docId].status = "pending"
                         /\ ResultsFor(analysisResults', run[a].docId) = EmptyBag]_vars

(* Both runs are in flight with a document each, one waiting for the       *)
(* extraction and one for the save.                                        *)
TwoRunsInFlightWitness ==
    /\ run["tabA"].pc = "saveAnalysis"
    /\ run["tabB"].pc = "extractText"
    /\ run["tabA"].docId = 2
    /\ run["tabB"].docId = 1

(* C29: once a document has been deleted it never reappears and no         *)
(* AnalysisResult is stored for its id; every later step of a run that was *)
(* in flight for it writes nothing, and the run's save fails.              *)
DeletedDocumentStaysDeleted ==
    [][/\ \A d \in 1..(nextDocId - 1) :
             d \notin DOMAIN documents
                => /\ d \notin DOMAIN documents'
                   /\ ResultsFor(analysisResults', d) = ResultsFor(analysisResults, d)
       /\ \A r \in Runs :
             (/\ run[r].docId # NoId
              /\ run[r].docId \notin DOMAIN documents)
                 => /\ ResultsFor(analysisResults', run[r].docId) = EmptyBag
                    /\ run'[r] # run[r]
                          => /\ UNCHANGED <<documents, analysisResults>>
                             /\ run[r].pc = "saveAnalysis" => run'[r].pc = "error"]_vars

(* The owner deleted the document while its run was waiting for the        *)
(* analysis; the run's save was answered with "Document not found".        *)
SaveAfterDeleteWitness ==
    /\ \E r \in Runs : run[r].pc = "error" /\ run[r].error = "Document not found"
    /\ nextDocId = 2
    /\ documents = <<>>
    /\ analysisResults = EmptyBag

(***************************************************************************)
(* Users: checkCode, register and login.  Codes and passwords are strings, *)
(* kept as sequences of characters so that the regular expressions are     *)
(* evaluated character by character.  Each handler is a mutation, so it    *)
(* runs as one transaction.                                                *)
(***************************************************************************)
Digit == {"0", "1", "2", "3", "4", "5", "6", "7", "8", "9"}

(* /^\d{6}$/ : six characters, each of them a digit. *)
CODE_REGEX(code) == Len(code) = 6 /\ \A i \in 1..Len(code) : code[i] \in Digit

(* /^\d{2}$/ *)
PASSWORD_REGEX(password) ==
    Len(password) = 2 /\ \A i \in 1..Len(password) : password[i] \in Digit

Codes ==
    { <<"1", "2", "3", "4", "5", "6">>,
      <<"6", "5", "4", "3", "2", "1">>,
      <<"1", "2", "3", "4", "5">>,
      <<"1", "2", "3", "4", "5", "6", "7">>,
      <<"1", "2", "3", "4", "5", "x">>,
      <<>> }

Passwords ==
    { <<"1", "2">>, <<"3", "4">>, <<"1">>, <<"1", "2", "3">>, <<"1", "x">>, <<>> }

(* .withIndex("by_code", q => q.eq("code", code)).first() : the earliest   *)
(* inserted row with that code, NoId when there is none.                   *)
FirstByCode(code) ==
    LET hits == {u \in DOMAIN users : users[u].code = code}
    IN  IF hits = {} THEN NoId ELSE CHOOSE u \in hits : \A w \in hits : u <= w

(* The row register inserts, lines 213-217; name is `User ${code}`. *)
UserRow(code, password) ==
    [code |-> code, password |-> password, name |-> <<"User ">> \o code]

Reply(op, code, password, err, value) ==
    [op |-> op, code |-> code, password |-> password, err |-> err, value |-> value]

UsersFrame == UNCHANGED <<documents, storage, analysisResults, executionErrors,
                          nextDocId, nextStorageId, run, post>>

(* checkCode, lines 164-181: the value is 1 for true and 0 for false. *)
checkCode(code) ==
    /\ last' = IF ~CODE_REGEX(code)
                 THEN Reply("checkCode", code, <<>>, "Code must be exactly 6 digits", NoId)
               ELSE Reply("checkCode", code, <<>>, "ok",
                          IF FirstByCode(code) # NoId THEN 1 ELSE 0)
    /\ UNCHANGED users
    /\ UsersFrame

(* register that inserts without looking for an existing row. *)
registerWithoutLookup(code, password) ==
    /\ IF ~CODE_REGEX(code)
         THEN /\ last' = Reply("register", code, password, "Code must be exactly 6 digits", NoId)
              /\ UNCHANGED users
       ELSE IF ~PASSWORD_REGEX(password)
         THEN /\ last' = Reply("register", code, password, "Password must be exactly 2 digits", NoId)
              /\ UNCHANGED users
       ELSE /\ users' = Append(users, UserRow(code, password))
            /\ last' = Reply("register", code, password, "ok", Len(users) + 1)
    /\ UsersFrame

(* register, lines 184-220. *)
register(code, password) ==
    /\ IF ~CODE_REGEX(code)
         THEN /\ last' = Reply("register", code, password, "Code must be exactly 6 digits", NoId)
              /\ UNCHANGED users
       ELSE IF ~PASSWORD_REGEX(password)
         THEN /\ last' = Reply("register", code, password, "Password must be exactly 2 digits", NoId)
              /\ UNCHANGED users
       ELSE IF FirstByCode(code) # NoId
         THEN /\ last' = Reply("register", code, password, "Code already exists", NoId)
              /\ UNCHANGED users
       ELSE /\ users' = Append(users, UserRow(code, password))
            /\ last' = Reply("register", code, password, "ok", Len(users) + 1)
    /\ UsersFrame

(* login, lines 223-257. *)
login(code, password) ==
    /\ last' = IF ~CODE_REGEX(code)
                 THEN Reply("login", code, password, "Code must be exactly 6 digits", NoId)
               ELSE IF ~PASSWORD_REGEX(password)
                 THEN Reply("login", code, password, "Password must be exactly 2 digits", NoId)
               ELSE IF FirstByCode(code) = NoId
                 THEN Reply("login", code, password, "User not found", NoId)
               ELSE IF users[FirstByCode(code)].password # password
                 THEN Reply("login", code, password, "Incorrect password", NoId)
               ELSE Reply("login", code, password, "ok", FirstByCode(code))
    /\ UNCHANGED users
    /\ UsersFrame

InitUsers ==
    /\ documents = <<>>
    /\ storage = {}
    /\ analysisResults = EmptyBag
    /\ executionErrors = <<>>
    /\ nextDocId = 1
    /\ nextStorageId = 1
    /\ run = [r \in Runs |-> IdleRun]
    /\ last = NoCall
    /\ post = NoPost
    /\ users = <<>>

NextUsers ==
    \/ \E code \in Codes : checkCode(code)
    \/ \E code \in Codes, password \in Passwords : register(code, password)
    \/ \E code \in Codes, password \in Passwords : login(code, password)

SpecUsers == InitUsers /\ [][NextUsers]_vars

(* C30: at most one user exists per code; a register call for a code that  *)
(* already has a user, or with a code that is not six digits or a password *)
(* that is not two digits, fails and adds no user, and a register call     *)
(* that succeeds adds exactly the one user it names; login returns a user  *)
(* id only of a user whose code and stored password are the ones supplied. *)
OneUserPerCodeAndLoginByPassword ==
    [][/\ \A u, w \in DOMAIN users' : users'[u].code = users'[w].code => u = w
       /\ \A u \in DOMAIN users' :
             CODE_REGEX(users'[u].code) /\ PASSWORD_REGEX(users'[u].password)
       /\ last' # last /\ last'.op = "register"
             => /\ (\/ FirstByCode(last'.code) # NoId
                    \/ Len(last'.code) # 6
                    \/ \E i \in 1..Len(last'.code) : last'.code[i] \notin Digit
                    \/ Len(last'.password) # 2
                    \/ \E i \in 1..Len(last'.password) : last'.password[i] \notin Digit)
                      => last'.err # "ok" /\ users' = users
                /\ last'.err = "ok"
                      => users' = Append(users, UserRow(last'.code, last'.password))
       /\ last' # last /\ last'.op \in {"login", "checkCode"}
             => /\ users' = users
                /\ (last'.op = "login" /\ last'.err = "ok")
                      => /\ last'.value \in DOMAIN users
                         /\ users[last'.value].code = last'.code
                         /\ users[last'.value].password = last'.password]_vars

(* Two users are registered; a login with the first one's code and the     *)
(* second one's password was refused.                                      *)
WrongPasswordWitness ==
    /\ Len(users) = 2
    /\ last.op = "login"
    /\ last.err = "Incorrect password"
    /\ last.code = users[1].code
    /\ last.password = users[2].password

====
